---- MODULE Spec2Model ----
(***************************************************************************)
(* The frame-presentation loop of src/src/main.rs: the closure handed to   *)
(* event_loop.run, its captured state (swapchain, viewport,                *)
(* command_buffers, the two rebuild flags) and the three window events it  *)
(* handles.  Results of calls into the graphics and window libraries are   *)
(* inputs of the handlers, drawn from the result kinds the code matches.   *)
(***************************************************************************)
EXTENDS Integers, Sequences, FiniteSets, TLC

\* ---------------------------------------------------------------- bounds
\* how many different window sizes the user can produce
NumSizes == 2
\* the largest number of images a (re)created swapchain may hold
MaxImages == 3
\* how many Resized events may be queued and not yet delivered
MaxPending == 1

\* the three MyVertex entries of the vertex buffer
VertexCount == 3

SizeList == << <<800, 600>>, <<400, 300>>, <<1024, 768>>, <<640, 480>> >>
Sizes == {SizeList[i] : i \in 1..NumSizes}

\* min_image_count is caps.min_image_count + 1 and caps.min_image_count >= 1;
\* the driver may create more images than the minimum asked for.
ImageCounts == (1 + 1)..MaxImages

VARIABLES
    pc,                 \* "events": the events of an iteration are being
                        \* delivered; "cleared": MainEventsCleared has been
                        \* handled; "exited"; "panicked"
    control_flow,       \* *control_flow of the closure
    window_resized,     \* let mut window_resized
    recreate_swapchain, \* let mut recreate_swapchain
    swapchain,          \* let mut swapchain
    framebuffers,       \* framebuffers of the latest (re)created swapchain
    viewport,           \* let mut viewport
    command_buffers,    \* let mut command_buffers
    inner_size,         \* what window.inner_size() returns now
    events,             \* Resized events queued by the window system
    reported,           \* the size carried by the latest delivered Resized
    close_seen,         \* a CloseRequested event has been delivered
    tick                \* what the MainEventsCleared run of this iteration
                        \* did (NoTick before it has run)

vars == <<pc, control_flow, window_resized, recreate_swapchain, swapchain,
          framebuffers, viewport, command_buffers, inner_size, events,
          reported, close_seen, tick>>

\* ------------------------------------------------------------ conversions
\* u32 -> f32 (From<PhysicalSize<u32>> for [f32; 2]): exact up to 2^24, then
\* rounded to the nearest representable value (ties to even), below 2^25.
ToF32(n) ==
    IF n <= 16777216 THEN n
    ELSE IF n % 2 = 0 THEN n
    ELSE IF (n \div 2) % 2 = 0 THEN 2 * (n \div 2)
    ELSE 2 * ((n \div 2) + 1)

\* window.inner_size().into() as the image_extent of a swapchain: [u32; 2]
ImageExtent(size) == <<size[1], size[2]>>

\* window.inner_size().into() as the extent of a Viewport: [f32; 2]
ViewportExtent(size) == <<ToF32(size[1]), ToF32(size[2])>>

\* ------------------------------------------------------- resource builders
\* Swapchain::new: the chain and its images
NewSwapchain(dimensions, count) ==
    [image_extent |-> ImageExtent(dimensions), image_count |-> count]

\* swapchain.recreate(SwapchainCreateInfo { image_extent, ..create_info() }):
\* a new chain of count images with the other parameters of the old one.
Recreate(old, new_dimensions, count) ==
    [old EXCEPT !.image_extent = ImageExtent(new_dimensions),
                !.image_count = count]

\* one framebuffer per image, in image order.  The images are those of the
\* chain in use when the framebuffer is built: "current".
get_framebuffers(sc) ==
    [i \in 1..sc.image_count |-> [swapchain |-> "current", image |-> i - 1]]

\* swapchain = new_swapchain: the chain in use until now is retired, and so
\* are its images, whatever still refers to them.
RetireChain(cmds) ==
    [i \in 1..Len(cmds) |->
        [cmds[i] EXCEPT !.framebuffer.swapchain = "retired"]]

get_pipeline(vp) == [viewport |-> vp]

\* one command buffer per framebuffer: begin pass on the framebuffer, bind
\* the pipeline, bind the vertex buffer, draw(len, 1, 0, 0), end pass.
get_command_buffers(pipeline, fbs) ==
    [i \in 1..Len(fbs) |->
        [framebuffer |-> fbs[i],
         pipeline |-> pipeline,
         draw |-> <<VertexCount, 1, 0, 0>>]]

\* ------------------------------------------------------------ tick record
NoCmd == [framebuffer |-> [swapchain |-> "none", image |-> -1],
          pipeline |-> [viewport |-> [extent |-> <<0, 0>>]],
          draw |-> <<0, 0, 0, 0>>]

NoTick ==
    [ran |-> FALSE,
     entry_window_resized |-> FALSE,
     entry_recreate_swapchain |-> FALSE,
     entry_close |-> FALSE,
     entry_swapchain |-> [image_extent |-> <<0, 0>>, image_count |-> 0],
     recreate |-> "none",       \* "none", "ok", "failed"
     commands_rebuilt |-> FALSE,
     acquire |-> "none",        \* "none", "Ok", "OutOfDate", "Error"
     image_i |-> -1,
     suboptimal |-> FALSE,
     index_out_of_bounds |-> FALSE,
     execute |-> "none",        \* then_execute: "none", "Ok", "Error"
     submitted |-> NoCmd,       \* the command buffer handed to then_execute
     presented |-> -1,          \* image index of the present request
     flush |-> "none",          \* "none", "Ok", "OutOfDate", "Error"
     waited |-> FALSE,          \* future.wait(None) was called
     wait_failed |-> FALSE,     \* and returned an error
     warned |-> FALSE]

\* the closure's captured state at the entry of a MainEventsCleared run
Entry ==
    [swapchain |-> swapchain,
     framebuffers |-> framebuffers,
     viewport |-> viewport,
     command_buffers |-> command_buffers,
     window_resized |-> window_resized,
     recreate_swapchain |-> recreate_swapchain,
     panicked |-> FALSE,
     returned |-> FALSE,
     log |-> [NoTick EXCEPT
                !.ran = TRUE,
                !.entry_window_resized = window_resized,
                !.entry_recreate_swapchain = recreate_swapchain,
                !.entry_close = close_seen,
                !.entry_swapchain = swapchain]]

\* ------------------------------------------------- MainEventsCleared, staged
\* if window_resized || recreate_swapchain
NeedsRebuild_ResizeOnly(wr, rs) == wr
NeedsRebuild(wr, rs) == wr \/ rs

\* .expect("failed to recreate swapchain") on an Err of swapchain.recreate
OnRecreateError_Retry(c) ==
    [c EXCEPT !.returned = TRUE,
              !.recreate_swapchain = TRUE,
              !.log.recreate = "failed"]
OnRecreateError(c) ==
    [c EXCEPT !.panicked = TRUE, !.log.recreate = "failed"]

\* viewport.extent = new_dimensions.into()
SetViewportExtent_Keep(vp, new_dimensions) == vp
SetViewportExtent(vp, new_dimensions) ==
    [vp EXCEPT !.extent = ViewportExtent(new_dimensions)]

\* if window_resized { ... }: the new viewport, the new pipeline and the
\* command buffers recorded against the new framebuffers
ResizeBranch(c, new_dimensions, new_framebuffers) ==
    LET vp == SetViewportExtent(c.viewport, new_dimensions)
        new_pipeline == get_pipeline(vp)
    IN  [c EXCEPT !.window_resized = FALSE,
                  !.viewport = vp,
                  !.command_buffers =
                      get_command_buffers(new_pipeline, new_framebuffers),
                  !.log.commands_rebuilt = TRUE]

\* the rebuild branch; rec is the result of swapchain.recreate: an error, or
\* a new chain of rec.count images
RebuildStage(c, new_dimensions, rec) ==
    IF ~NeedsRebuild(c.window_resized, c.recreate_swapchain) THEN c
    ELSE
      LET c1 == [c EXCEPT !.recreate_swapchain = FALSE] IN
      IF ~rec.ok THEN OnRecreateError(c1)
      ELSE
        LET new_swapchain == Recreate(c1.swapchain, new_dimensions, rec.count)
            new_framebuffers == get_framebuffers(new_swapchain)
            c2 == [c1 EXCEPT !.swapchain = new_swapchain,
                             !.command_buffers = RetireChain(@),
                             !.framebuffers = new_framebuffers,
                             !.log.recreate = "ok"]
        IN  IF c2.window_resized
            THEN ResizeBranch(c2, new_dimensions, new_framebuffers)
            ELSE c2

\* match swapchain::acquire_next_image(swapchain.clone(), None)
AcquireStage(c, acq) ==
    LET c1 == [c EXCEPT !.log.acquire = acq.result]
    IN  CASE acq.result = "OutOfDate" ->
               [c1 EXCEPT !.recreate_swapchain = TRUE, !.returned = TRUE]
          [] acq.result = "Error" ->
               [c1 EXCEPT !.panicked = TRUE]
          [] OTHER ->
               [c1 EXCEPT !.log.image_i = acq.image_i,
                          !.log.suboptimal = acq.suboptimal,
                          !.recreate_swapchain =
                              IF acq.suboptimal THEN TRUE ELSE @]

\* match execution.map_err(Validated::unwrap)
FlushArm_Fatal(c, fl, wait_ok) ==
    CASE fl = "Ok" ->
           [c EXCEPT !.log.flush = fl, !.log.waited = TRUE,
                     !.log.wait_failed = ~wait_ok,
                     !.panicked = ~wait_ok]
      [] OTHER ->
           [c EXCEPT !.log.flush = fl, !.panicked = TRUE]
FlushArm(c, fl, wait_ok) ==
    CASE fl = "Ok" ->
           [c EXCEPT !.log.flush = fl, !.log.waited = TRUE,
                     !.log.wait_failed = ~wait_ok,
                     !.panicked = ~wait_ok]
      [] fl = "OutOfDate" ->
           [c EXCEPT !.log.flush = fl, !.recreate_swapchain = TRUE]
      [] OTHER ->
           [c EXCEPT !.log.flush = fl, !.log.warned = TRUE]

\* command_buffers[image_i as usize], then_execute(..).unwrap(),
\* then_swapchain_present, then_signal_fence_and_flush and the match on it
SubmitStage(c, r) ==
    LET i == c.log.image_i IN
    IF i + 1 > Len(c.command_buffers)
    THEN [c EXCEPT !.panicked = TRUE, !.log.index_out_of_bounds = TRUE]
    ELSE IF ~r.exec_ok
    THEN [c EXCEPT !.panicked = TRUE, !.log.execute = "Error"]
    ELSE FlushArm([c EXCEPT !.log.execute = "Ok",
                            !.log.submitted = c.command_buffers[i + 1],
                            !.log.presented = i],
                  r.flush, r.wait_ok)

\* --------------------------------------------------------------- inputs
RecreateResults ==
    {[ok |-> TRUE, count |-> n] : n \in ImageCounts}
    \cup {[ok |-> FALSE, count |-> 0]}

AcquireResults(sc) ==
    {[result |-> "Ok", image_i |-> i, suboptimal |-> b] :
        i \in 0..(sc.image_count - 1), b \in BOOLEAN}
    \cup {[result |-> r, image_i |-> -1, suboptimal |-> FALSE] :
            r \in {"OutOfDate", "Error"}}

\* then_execute fails, or it succeeds and the flush returns; after a flush
\* that succeeded, future.wait(None) succeeds or fails
SubmitResults ==
    {[exec_ok |-> FALSE, flush |-> "none", wait_ok |-> TRUE]}
    \cup {[exec_ok |-> TRUE, flush |-> "Ok", wait_ok |-> w] : w \in BOOLEAN}
    \cup {[exec_ok |-> TRUE, flush |-> f, wait_ok |-> TRUE] :
            f \in {"OutOfDate", "Error"}}

\* -------------------------------------------------------------- the loop
\* *control_flow = ControlFlow::Exit
OnCloseRequested_Ignore(cf) == cf
OnCloseRequested(cf) == "Exit"

\* event_loop.run: the closure is called with every event of an iteration
\* (the window events, MainEventsCleared, then RedrawEventsCleared), and what
\* it left in control_flow decides, once the iteration is over, whether
\* another iteration starts.
AfterIteration(cf) == IF cf = "Exit" THEN "exited" ELSE "events"

Init ==
    \E dimensions \in Sizes, size_now \in Sizes, count \in ImageCounts :
        LET sc == NewSwapchain(dimensions, count)
            fbs == get_framebuffers(sc)
            vp == [extent |-> ViewportExtent(size_now)]
        IN  /\ pc = "events"
            /\ control_flow = "Poll"
            /\ window_resized = FALSE
            /\ recreate_swapchain = FALSE
            /\ swapchain = sc
            /\ framebuffers = fbs
            /\ viewport = vp
            /\ command_buffers = get_command_buffers(get_pipeline(vp), fbs)
            /\ inner_size = size_now
            /\ events = IF size_now = dimensions THEN <<>> ELSE <<size_now>>
            /\ reported = dimensions
            /\ close_seen = FALSE
            /\ tick = NoTick

\* the user resizes the window; the window system queues a Resized event
WindowResize ==
    /\ pc = "events"
    /\ Len(events) < MaxPending
    /\ \E size \in Sizes :
        /\ inner_size' = size
        /\ events' = Append(events, size)
    /\ UNCHANGED <<pc, control_flow, window_resized, recreate_swapchain,
                   swapchain, framebuffers, viewport, command_buffers,
                   reported, close_seen>>
    /\ UNCHANGED tick

\* Event::WindowEvent { event: WindowEvent::CloseRequested, .. }
CloseRequested ==
    /\ pc = "events"
    /\ control_flow' = OnCloseRequested(control_flow)
    /\ close_seen' = TRUE
    /\ UNCHANGED <<pc, window_resized, recreate_swapchain, swapchain,
                   framebuffers, viewport, command_buffers, inner_size,
                   events, reported>>
    /\ UNCHANGED tick

\* Event::WindowEvent { event: WindowEvent::Resized(_), .. }
Resized ==
    /\ pc = "events"
    /\ events # <<>>
    /\ window_resized' = TRUE
    /\ reported' = Head(events)
    /\ events' = Tail(events)
    /\ UNCHANGED <<pc, control_flow, recreate_swapchain, swapchain,
                   framebuffers, viewport, command_buffers, inner_size,
                   close_seen>>
    /\ UNCHANGED tick

Finish(c) ==
    /\ pc' = IF c.panicked THEN "panicked" ELSE "cleared"
    /\ window_resized' = c.window_resized
    /\ recreate_swapchain' = c.recreate_swapchain
    /\ swapchain' = c.swapchain
    /\ framebuffers' = c.framebuffers
    /\ viewport' = c.viewport
    /\ command_buffers' = c.command_buffers
    /\ tick' = c.log
    /\ UNCHANGED <<control_flow, inner_size, events, reported, close_seen>>

\* Event::MainEventsCleared
MainEventsCleared ==
    /\ pc = "events"
    /\ \E rec \in RecreateResults :
         LET c1 == RebuildStage(Entry, inner_size, rec) IN
         IF c1.panicked \/ c1.returned THEN Finish(c1)
         ELSE \E acq \in AcquireResults(c1.swapchain) :
                LET c2 == AcquireStage(c1, acq) IN
                IF c2.panicked \/ c2.returned THEN Finish(c2)
                ELSE \E r \in SubmitResults : Finish(SubmitStage(c2, r))

\* _ => (): the events that end an iteration, the last of them
\* RedrawEventsCleared; then the loop stops or the next iteration starts
RedrawEventsCleared ==
    /\ pc = "cleared"
    /\ pc' = AfterIteration(control_flow)
    /\ tick' = IF pc' = "events" THEN NoTick ELSE tick
    /\ UNCHANGED <<control_flow, window_resized, recreate_swapchain,
                   swapchain, framebuffers, viewport, command_buffers,
                   inner_size, events, reported, close_seen>>

Next ==
    \/ WindowResize
    \/ CloseRequested
    \/ Resized
    \/ MainEventsCleared
    \/ RedrawEventsCleared

Spec == Init /\ [][Next]_vars

\* ================================================================ claims

\* C1: after every rebuild performed by the frame loop, command_buffers has
\* as many entries as the current swapchain has images, whatever image count
\* the recreated chain returns.
C1_LengthEqualsImageCount ==
    tick.recreate = "ok" => Len(command_buffers) = swapchain.image_count

\* C2: at every submission the command buffer submitted for the acquired
\* index i was recorded against framebuffer i of the current swapchain and
\* against the current pipeline, never against framebuffers of a retired one.
C2_SubmittedAgainstCurrentChain ==
    tick.execute = "Ok" =>
        /\ tick.submitted.framebuffer = framebuffers[tick.image_i + 1]
        /\ tick.submitted.pipeline = get_pipeline(viewport)

\* C3: a tick whose acquisition reports out-of-date issues no submission and
\* no present, sets recreate_swapchain and returns; the flag is cleared only
\* by a tick that recreates the swapchain, and a tick entered with the flag
\* set acquires only after it has recreated the swapchain.
C3_OutOfDateTick ==
    /\ tick.acquire = "OutOfDate" =>
           /\ tick.execute = "none"
           /\ tick.presented = -1
           /\ tick.flush = "none"
           /\ recreate_swapchain
           /\ pc # "panicked"
    /\ (tick.ran /\ tick.entry_recreate_swapchain) =>
           /\ tick.recreate # "none"
           /\ tick.acquire # "none" => tick.recreate = "ok"

C3_OutOfDateSkipsFrame ==
    /\ []C3_OutOfDateTick
    /\ [][(recreate_swapchain /\ ~recreate_swapchain')
             => tick'.recreate # "none"]_vars

C3_Witness ==
    /\ tick.entry_recreate_swapchain
    /\ ~tick.entry_window_resized
    /\ tick.recreate = "ok"
    /\ tick.acquire = "OutOfDate"
    /\ recreate_swapchain
    /\ pc = "cleared"

\* C4: a tick whose acquisition succeeds and reports suboptimal still issues
\* the submission and the present for the acquired index (a failure of
\* then_execute itself set aside), and leaves recreate_swapchain set so that
\* the swapchain is rebuilt before the next acquisition.
C4_SuboptimalStillSubmits ==
    (tick.acquire = "Ok" /\ tick.suboptimal /\ tick.execute # "Error") =>
        /\ tick.execute = "Ok"
        /\ tick.submitted # NoCmd
        /\ tick.presented = tick.image_i
        /\ tick.flush # "none"
        /\ recreate_swapchain

\* C5: once every Resized event has been delivered and handled (none
\* queued, window_resized cleared), the viewport of the pipeline bound in
\* every command buffer has the latest reported window size as its extent.
C5_ViewportIsLatestSize ==
    (events = <<>> /\ ~window_resized) =>
        /\ viewport.extent = ViewportExtent(reported)
        /\ \A i \in 1..Len(command_buffers) :
             command_buffers[i].pipeline.viewport.extent
                 = ViewportExtent(reported)

C5_Witness ==
    /\ tick.entry_window_resized
    /\ tick.commands_rebuilt
    /\ events = <<>>
    /\ ~window_resized
    /\ swapchain.image_extent # tick.entry_swapchain.image_extent
    /\ pc = "cleared"

\* C6 (as stated): a tick that runs after the close request was observed
\* ends the loop and issues no acquisition and no completion wait.
C6_NoAcquireAfterClose ==
    (tick.ran /\ tick.entry_close) =>
        /\ pc # "events"
        /\ tick.acquire = "none"
        /\ ~tick.waited

\* C6 (amended): after a tick that ran with the close request observed the
\* loop takes no further event: at most one tick follows a close request,
\* whatever the rebuild flags are.
C6_ExitsWithinOneTick ==
    [][(tick.ran /\ tick.entry_close) => pc' # "events"]_vars

C6_Witness ==
    /\ pc = "exited"
    /\ tick.entry_close
    /\ tick.entry_recreate_swapchain
    /\ tick.acquire = "Ok"

C8_RecreateFailureNonFatal ==
    tick.recreate = "failed" =>
        /\ pc # "panicked"
        /\ swapchain = tick.entry_swapchain
        /\ window_resized \/ recreate_swapchain

\* C8 (amended): a failure of the swapchain recreation ends the process: the
\* old chain is still in place and no acquisition is attempted.
C8_RecreateFailureFatal ==
    tick.recreate = "failed" =>
        /\ pc = "panicked"
        /\ swapchain = tick.entry_swapchain
        /\ tick.acquire = "none"

C8_Witness ==
    /\ tick.recreate = "failed"
    /\ tick.entry_recreate_swapchain

\* C10: at every acquisition and submission the extent of the current
\* swapchain equals the viewport extent of the pipeline bound in the
\* command buffers, also when the window size changed and its Resized event
\* has not been delivered yet.
C10_ChainExtentEqualsViewport ==
    tick.acquire # "none" =>
        /\ ViewportExtent(swapchain.image_extent) = viewport.extent
        /\ tick.execute = "Ok" =>
             tick.submitted.pipeline.viewport.extent
                 = ViewportExtent(swapchain.image_extent)

====
